---- MODULE Spec2Model ----
(***************************************************************************)
(* A model of src/vector.h: RawMemory<T> (an owned block of raw storage)   *)
(* and Vector<T> (a RawMemory plus the count of live elements).            *)
(*                                                                         *)
(* The heap is a finite set of blocks; a block is a sequence of slots and  *)
(* a slot is <<>> (raw storage) or <<x>> (one live T of value x).          *)
(* Element type T: copy construction, copy assignment and value            *)
(* construction may throw; move construction and move assignment may throw *)
(* exactly when T is not nothrow-move-constructible (nothrowMove = FALSE,  *)
(* the type that Reserve/Emplace relocate by copy).  A throwing element    *)
(* operation leaves its operands as they were.  Every operation takes a    *)
(* fault index k: the k-th throwing-capable step of the call throws        *)
(* (k = 0: none does).                                                     *)
(***************************************************************************)
EXTENDS Integers, Sequences, FiniteSets, TLC

\* ---- bounds of the model ----
MaxCap == 3
MaxCapTwo == 1
MaxBufs == 3
MaxFault == 5

Arrays == {"a", "b"}
\* the values a caller passes in; with Default and MovedFrom an element has
\* one of three values
Values == {1}
BufIds == 1 .. MaxBufs
Faults == 0 .. MaxFault

\* a fault index past the last step of any call: the call runs to its end
NoFault == MaxFault + 1

\* RawMemory::buffer_ of an instance that owns nothing
Nullptr == 0
\* the value of a value-initialised T
Default == 0
\* the value left in a T that has been moved from
MovedFrom == 0 - 1

VARIABLES vec, mem, nothrowMove, call
vars == <<vec, mem, nothrowMove, call>>

\* ---- slots and blocks ----
Raw == <<>>
Obj(x) == <<x>>
IsLive(s) == s # Raw

NoVector == [alive |-> FALSE, buffer_ |-> Nullptr, capacity_ |-> 0, size_ |-> 0]
EmptyVector == [alive |-> TRUE, buffer_ |-> Nullptr, capacity_ |-> 0, size_ |-> 0]
FreeBlock == [alloc |-> FALSE, slots |-> <<>>]

\* the fault index after n throwing-capable steps that did not throw
Tick(k, n) == IF k > n THEN k - n ELSE 0

Min(S) == CHOOSE x \in S : \A y \in S : x <= y
FreeIds(m) == {b \in BufIds : ~m.heap[b].alloc}

\* the n slots of block b from offset lo (0-based) on, set to g[1] .. g[n]
MapSlots(m, b, lo, n, g) ==
    IF n <= 0 \/ b = Nullptr THEN m
    ELSE [m EXCEPT !.heap[b].slots =
            [i \in 1 .. Len(@) |-> IF i > lo /\ i <= lo + n THEN g[i - lo] ELSE @[i]]]

\* slot i (1-based) of block b; outside the block there is nothing to read
Slot(m, b, i) ==
    IF b = Nullptr \/ i < 1 \/ i > Len(m.heap[b].slots) THEN Raw ELSE m.heap[b].slots[i]

\* the n slots of block b from offset lo on, as they are
Slots(m, b, lo, n) == [j \in 1 .. n |-> Slot(m, b, lo + j)]

\* n copies of slot s
Fill(n, s) == [j \in 1 .. n |-> s]

\* the slots of a range that hold a T, each left moved-from
MovedFromSlots(m, b, lo, n) ==
    [j \in 1 .. n |-> IF IsLive(Slot(m, b, lo + j)) THEN Obj(MovedFrom) ELSE Raw]

AnyLive(m, b, lo, n) == \E i \in (lo + 1) .. (lo + n) : IsLive(Slot(m, b, i))
AnyRaw(m, b, lo, n) == \E i \in (lo + 1) .. (lo + n) : ~IsLive(Slot(m, b, i))

Flag(m, cond, e) == IF cond THEN [m EXCEPT !.errs = @ \cup {e}] ELSE m


\* RawMemory::Allocate: [threw, b, mem, k]
Allocate(m, n, k) ==
    IF n = 0 THEN [threw |-> FALSE, b |-> Nullptr, mem |-> m, k |-> k]
    ELSE IF k = 1 \/ FreeIds(m) = {} THEN [threw |-> TRUE, b |-> Nullptr, mem |-> m, k |-> 0]
    ELSE LET b == Min(FreeIds(m))
         IN [threw |-> FALSE, b |-> b, k |-> Tick(k, 1),
             mem |-> [m EXCEPT !.heap[b] = [alloc |-> TRUE, slots |-> [i \in 1 .. n |-> Raw]]]]

\* RawMemory::Deallocate (operator delete): no destructor runs
Deallocate(m, b) ==
    IF b = Nullptr THEN m
    ELSE IF ~m.heap[b].alloc THEN Flag(m, TRUE, "double_free")
    ELSE Flag([m EXCEPT !.heap[b] = FreeBlock],
              AnyLive(m, b, 0, Len(m.heap[b].slots)), "freed_live")

\* The last pointer to block b is overwritten.  Nothing can reach the block
\* again: it is never released and what lives in it is never destroyed.  The
\* call is logged and the block leaves the model's heap.
Overwrite(m, b) ==
    IF b = Nullptr \/ ~m.heap[b].alloc THEN m
    ELSE Flag(Flag([m EXCEPT !.heap[b] = FreeBlock], TRUE, "lost_block"),
              AnyLive(m, b, 0, Len(m.heap[b].slots)), "lost_live")

\* placement new of a T of value x into slot off of block b
ConstructAt(m, b, off, x) ==
    Flag(MapSlots(m, b, off, 1, Fill(1, Obj(x))),
         AnyLive(m, b, off, 1), "construct_over_live")

\* std::destroy_n(b + lo, n)
DestroyN(m, b, lo, n) ==
    Flag(MapSlots(m, b, lo, n, Fill(n, Raw)),
         AnyRaw(m, b, lo, n), "destroy_raw")

\* std::uninitialized_copy_n(sb + so, n, db + do): the k-th copy construction
\* throws, and then the copies already made are destroyed.  [threw, mem, k]
UninitializedCopyN(m, sb, so, n, db, do, k) ==
    LET threw == k >= 1 /\ k <= n
        done == IF threw THEN k - 1 ELSE n
        m0 == Flag(m, AnyRaw(m, sb, so, done), "read_raw")
        m1 == Flag(MapSlots(m0, db, do, done, Slots(m, sb, so, done)),
                   AnyLive(m, db, do, done), "construct_over_live")
    IN [threw |-> threw, k |-> IF threw THEN 0 ELSE Tick(k, n),
        mem |-> IF threw THEN DestroyN(m1, db, do, done) ELSE m1]

\* std::uninitialized_move_n(sb + so, n, db + do) when no move construction
\* throws; with n = 1, new (db + do) T(std::move(sb[so]))
UninitializedMoveN(m, sb, so, n, db, do) ==
    LET m0 == Flag(m, AnyRaw(m, sb, so, n), "read_raw")
        m1 == Flag(MapSlots(m0, db, do, n, Slots(m, sb, so, n)),
                   AnyLive(m, db, do, n), "construct_over_live")
    IN MapSlots(m1, sb, so, n, MovedFromSlots(m1, sb, so, n))

\* std::uninitialized_value_construct_n(b + lo, n).  [threw, mem, k]
UninitializedValueConstructN(m, b, lo, n, k) ==
    LET threw == k >= 1 /\ k <= n
        done == IF threw THEN k - 1 ELSE n
        m1 == Flag(MapSlots(m, b, lo, done, Fill(done, Obj(Default))),
                   AnyLive(m, b, lo, done), "construct_over_live")
    IN [threw |-> threw, k |-> IF threw THEN 0 ELSE Tick(k, n),
        mem |-> IF threw THEN DestroyN(m1, b, lo, done) ELSE m1]

\* the relocation Reserve and Emplace choose by
\* is_nothrow_move_constructible_v<T> || !is_copy_constructible_v<T>
Relocate(m, sb, so, n, db, do, k) ==
    IF nothrowMove
    THEN [threw |-> FALSE, k |-> k, mem |-> UninitializedMoveN(m, sb, so, n, db, do)]
    ELSE UninitializedCopyN(m, sb, so, n, db, do, k)

\* dst = std::move(src) on two slots of block b (0-based offsets)
MoveAssign(m, b, src, dst) ==
    LET m0 == Flag(m, AnyRaw(m, b, src, 1) \/ AnyRaw(m, b, dst, 1), "read_raw")
        m1 == MapSlots(m0, b, dst, 1, Slots(m, b, src, 1))
    IN MapSlots(m1, b, src, 1, MovedFromSlots(m1, b, src, 1))

\* the first n assignments of std::move_backward(.., b + last, b + d_last)
RECURSIVE MoveBackward(_, _, _, _, _)
MoveBackward(m, b, last, d_last, n) ==
    IF n <= 0 THEN m
    ELSE MoveBackward(MoveAssign(m, b, last - 1, d_last - 1), b, last - 1, d_last - 1, n - 1)

\* the first n assignments of std::move(b + first, .., b + d_first)
RECURSIVE MoveForward(_, _, _, _, _)
MoveForward(m, b, first, d_first, n) ==
    IF n <= 0 THEN m
    ELSE MoveForward(MoveAssign(m, b, first, d_first), b, first + 1, d_first + 1, n - 1)

\* data_[i] = rhs.data_[i] for i in [0, n): copy assignment, slot by slot
CopyAssignN(m, sb, db, n) ==
    Flag(MapSlots(m, db, 0, n, Slots(m, sb, 0, n)),
         AnyRaw(m, sb, 0, n) \/ AnyRaw(m, db, 0, n), "read_raw")

\* what an operation hands back: the arrays, the memory, how it ended
\* ("ok" or the exception), the returned position, the fault index left
Outcome(V, m, res, ret, k) == [vec |-> V, mem |-> m, res |-> res, ret |-> ret, k |-> k]

\* ---- Vector: construction and destruction ----

\* Vector(): no allocation
DefaultCtor(V, m, v) == Outcome([V EXCEPT ![v] = EmptyVector], m, "ok", 0, 0)

\* Vector(size_t) that keeps the block when an element's construction throws
SizedCtorNoRelease(V, m, v, size, k) ==
    LET a == Allocate(m, size, k)
        c == UninitializedValueConstructN(a.mem, a.b, 0, size, a.k)
    IN IF a.threw THEN Outcome(V, m, "bad_alloc", 0, 0)
       ELSE IF c.threw THEN Outcome(V, c.mem, "T_exception", 0, 0)
       ELSE Outcome([V EXCEPT ![v] = [alive |-> TRUE, buffer_ |-> a.b,
                                      capacity_ |-> size, size_ |-> size]],
                    c.mem, "ok", 0, c.k)

\* explicit Vector(size_t size)
SizedCtor(V, m, v, size, k) ==
    LET a == Allocate(m, size, k)
        c == UninitializedValueConstructN(a.mem, a.b, 0, size, a.k)
    IN IF a.threw THEN Outcome(V, m, "bad_alloc", 0, 0)
       ELSE IF c.threw THEN Outcome(V, Deallocate(c.mem, a.b), "T_exception", 0, 0)
       ELSE Outcome([V EXCEPT ![v] = [alive |-> TRUE, buffer_ |-> a.b,
                                      capacity_ |-> size, size_ |-> size]],
                    c.mem, "ok", 0, c.k)

\* a copy constructor that copies the members, not the elements: both
\* arrays point at one block
CopyCtorSharesBuffer(V, m, v, other, k) ==
    Outcome([V EXCEPT ![v] = [alive |-> TRUE, buffer_ |-> V[other].buffer_,
                              capacity_ |-> V[other].size_, size_ |-> V[other].size_]],
            m, "ok", 0, k)

\* Vector(const Vector& other)
CopyCtor(V, m, v, other, k) ==
    LET o == V[other]
        a == Allocate(m, o.size_, k)
        c == UninitializedCopyN(a.mem, o.buffer_, 0, o.size_, a.b, 0, a.k)
    IN IF a.threw THEN Outcome(V, m, "bad_alloc", 0, 0)
       ELSE IF c.threw THEN Outcome(V, Deallocate(c.mem, a.b), "T_exception", 0, 0)
       ELSE Outcome([V EXCEPT ![v] = [alive |-> TRUE, buffer_ |-> a.b,
                                      capacity_ |-> o.size_, size_ |-> o.size_]],
                    c.mem, "ok", 0, c.k)

\* MoveCtor with the source left pointing at the block it gave away
MoveCtorKeepsSource(V, m, v, other) ==
    Outcome([V EXCEPT ![v] = [alive |-> TRUE, buffer_ |-> V[other].buffer_,
                              capacity_ |-> V[other].capacity_, size_ |-> V[other].size_]],
            m, "ok", 0, 0)

\* Vector(Vector&& other): RawMemory(RawMemory&&) and std::exchange(other.size_, 0)
MoveCtor(V, m, v, other) ==
    Outcome([V EXCEPT ![v] = [alive |-> TRUE, buffer_ |-> V[other].buffer_,
                              capacity_ |-> V[other].capacity_, size_ |-> V[other].size_],
                      ![other] = EmptyVector],
            m, "ok", 0, 0)

\* ~Vector(): std::destroy_n, then ~RawMemory releases the block
Dtor(V, m, v) ==
    Outcome([V EXCEPT ![v] = NoVector],
            Deallocate(DestroyN(m, V[v].buffer_, 0, V[v].size_), V[v].buffer_),
            "ok", 0, 0)

\* Vector::Swap: RawMemory::Swap and std::swap of size_
Swap(V, m, v, other) ==
    Outcome([V EXCEPT ![v] = V[other], ![other] = V[v]], m, "ok", 0, 0)

\* ---- Vector: assignment ----

\* copy assignment by copy-and-swap whatever the capacity
CopyAssignAlwaysSwaps(V, m, v, rhs, k) ==
    LET t == V[v]
        cc == CopyCtor(V, m, v, rhs, k)
    IN IF v = rhs THEN Outcome(V, m, "ok", 0, k)
       ELSE IF cc.res # "ok" THEN Outcome(V, cc.mem, cc.res, 0, 0)
       ELSE Outcome(cc.vec,
                    Deallocate(DestroyN(cc.mem, t.buffer_, 0, t.size_), t.buffer_),
                    "ok", 0, cc.k)

\* operator=(const Vector&) without the test of this != &rhs
CopyAssignNoSelfCheck(V, m, v, rhs, k) ==
    LET t == V[v]
        r == V[rhs]
        \* Vector rhs_copy(rhs); Swap(rhs_copy); ~rhs_copy
        cc == CopyCtor(V, m, v, rhs, k)
        n == IF r.size_ < t.size_ THEN r.size_ ELSE t.size_
        threw == k >= 1 /\ k <= n
        asg == CopyAssignN(m, r.buffer_, t.buffer_, IF threw THEN k - 1 ELSE n)
        cp == UninitializedCopyN(asg, r.buffer_, t.size_, r.size_ - t.size_,
                                 t.buffer_, t.size_, Tick(k, n))
    IN IF r.size_ > t.capacity_
       THEN IF cc.res # "ok" THEN Outcome(V, cc.mem, cc.res, 0, 0)
            ELSE Outcome(cc.vec,
                         Deallocate(DestroyN(cc.mem, t.buffer_, 0, t.size_), t.buffer_),
                         "ok", 0, cc.k)
       ELSE IF threw THEN Outcome(V, asg, "T_exception", 0, 0)
       ELSE IF r.size_ < t.size_
       THEN Outcome([V EXCEPT ![v].size_ = r.size_],
                    DestroyN(asg, t.buffer_, r.size_, t.size_ - r.size_),
                    "ok", 0, Tick(k, n))
       ELSE IF cp.threw THEN Outcome(V, cp.mem, "T_exception", 0, 0)
       ELSE Outcome([V EXCEPT ![v].size_ = r.size_], cp.mem, "ok", 0, cp.k)

\* operator=(const Vector& rhs)
CopyAssign(V, m, v, rhs, k) ==
    LET t == V[v]
        r == V[rhs]
        \* Vector rhs_copy(rhs); Swap(rhs_copy); ~rhs_copy
        cc == CopyCtor(V, m, v, rhs, k)
        n == IF r.size_ < t.size_ THEN r.size_ ELSE t.size_
        threw == k >= 1 /\ k <= n
        asg == CopyAssignN(m, r.buffer_, t.buffer_, IF threw THEN k - 1 ELSE n)
        cp == UninitializedCopyN(asg, r.buffer_, t.size_, r.size_ - t.size_,
                                 t.buffer_, t.size_, Tick(k, n))
    IN IF v = rhs THEN Outcome(V, m, "ok", 0, k)
       ELSE IF r.size_ > t.capacity_
       THEN IF cc.res # "ok" THEN Outcome(V, cc.mem, cc.res, 0, 0)
            ELSE Outcome(cc.vec,
                         Deallocate(DestroyN(cc.mem, t.buffer_, 0, t.size_), t.buffer_),
                         "ok", 0, cc.k)
       ELSE IF threw THEN Outcome(V, asg, "T_exception", 0, 0)
       ELSE IF r.size_ < t.size_
       THEN Outcome([V EXCEPT ![v].size_ = r.size_],
                    DestroyN(asg, t.buffer_, r.size_, t.size_ - r.size_),
                    "ok", 0, Tick(k, n))
       ELSE IF cp.threw THEN Outcome(V, cp.mem, "T_exception", 0, 0)
       ELSE Outcome([V EXCEPT ![v].size_ = r.size_], cp.mem, "ok", 0, cp.k)

\* move assignment that takes rhs's block and leaves rhs.size_ as it is
MoveAssignKeepsSize(V, m, v, rhs) ==
    IF v = rhs THEN Outcome(V, m, "ok", 0, 0)
    ELSE Outcome([V EXCEPT ![v].buffer_ = V[rhs].buffer_,
                           ![v].capacity_ = V[rhs].capacity_,
                           ![v].size_ = V[rhs].size_,
                           ![rhs] = [EmptyVector EXCEPT !.size_ = V[rhs].size_]],
                 Overwrite(m, V[v].buffer_), "ok", 0, 0)

\* operator=(Vector&& rhs): RawMemory::operator=(RawMemory&&) overwrites
\* buffer_ and capacity_ with rhs's, size_ = std::exchange(rhs.size_, 0)
MoveAssignVector(V, m, v, rhs) ==
    IF v = rhs THEN Outcome(V, m, "ok", 0, 0)
    ELSE Outcome([V EXCEPT ![v].buffer_ = V[rhs].buffer_,
                           ![v].capacity_ = V[rhs].capacity_,
                           ![v].size_ = V[rhs].size_,
                           ![rhs] = EmptyVector],
                 Overwrite(m, V[v].buffer_), "ok", 0, 0)

\* ---- Vector: capacity and size ----

\* Reserve with data_.Swap(new_data) made before the relocation: when a copy
\* throws the array already holds the new block
ReserveSwapsFirst(V, m, v, new_capacity, k) ==
    LET t == V[v]
        a == Allocate(m, new_capacity, k)
        r == Relocate(a.mem, t.buffer_, 0, t.size_, a.b, 0, a.k)
        swapped == [V EXCEPT ![v].buffer_ = a.b, ![v].capacity_ = new_capacity]
    IN IF new_capacity <= t.capacity_ THEN Outcome(V, m, "ok", 0, k)
       ELSE IF a.threw THEN Outcome(V, m, "bad_alloc", 0, 0)
       ELSE IF r.threw THEN Outcome(swapped, Deallocate(r.mem, t.buffer_), "T_exception", 0, 0)
       ELSE Outcome(swapped,
                    Deallocate(DestroyN(r.mem, t.buffer_, 0, t.size_), t.buffer_),
                    "ok", 0, r.k)

\* Reserve without the std::destroy_n of line 193: the old block is released
\* with its elements alive
ReserveNoDestroy(V, m, v, new_capacity, k) ==
    LET t == V[v]
        a == Allocate(m, new_capacity, k)
        r == Relocate(a.mem, t.buffer_, 0, t.size_, a.b, 0, a.k)
    IN IF new_capacity <= t.capacity_ THEN Outcome(V, m, "ok", 0, k)
       ELSE IF a.threw THEN Outcome(V, m, "bad_alloc", 0, 0)
       ELSE IF r.threw THEN Outcome(V, Deallocate(r.mem, a.b), "T_exception", 0, 0)
       ELSE Outcome([V EXCEPT ![v].buffer_ = a.b, ![v].capacity_ = new_capacity],
                    Deallocate(r.mem, t.buffer_), "ok", 0, r.k)

\* Vector::Reserve
Reserve(V, m, v, new_capacity, k) ==
    LET t == V[v]
        a == Allocate(m, new_capacity, k)
        r == Relocate(a.mem, t.buffer_, 0, t.size_, a.b, 0, a.k)
    IN IF new_capacity <= t.capacity_ THEN Outcome(V, m, "ok", 0, k)
       ELSE IF a.threw THEN Outcome(V, m, "bad_alloc", 0, 0)
       ELSE IF r.threw THEN Outcome(V, Deallocate(r.mem, a.b), "T_exception", 0, 0)
       ELSE Outcome([V EXCEPT ![v].buffer_ = a.b, ![v].capacity_ = new_capacity],
                    Deallocate(DestroyN(r.mem, t.buffer_, 0, t.size_), t.buffer_),
                    "ok", 0, r.k)

\* Resize whose shrinking loop starts one element late
ResizeDestroysOneLess(V, m, v, new_size, k) ==
    LET t == V[v]
        rs == Reserve(V, m, v, new_size, k)
        u == rs.vec[v]
        c == UninitializedValueConstructN(rs.mem, u.buffer_, u.size_,
                                          new_size - u.size_, rs.k)
    IN IF new_size > t.size_
       THEN IF rs.res # "ok" THEN rs
            ELSE IF c.threw THEN Outcome(rs.vec, c.mem, "T_exception", 0, 0)
            ELSE Outcome([rs.vec EXCEPT ![v].size_ = new_size], c.mem, "ok", 0, c.k)
       ELSE Outcome([V EXCEPT ![v].size_ = new_size],
                    IF new_size < t.size_
                    THEN DestroyN(m, t.buffer_, new_size + 1, t.size_ - new_size - 1)
                    ELSE m,
                    "ok", 0, k)

\* Vector::Resize
Resize(V, m, v, new_size, k) ==
    LET t == V[v]
        rs == Reserve(V, m, v, new_size, k)
        u == rs.vec[v]
        c == UninitializedValueConstructN(rs.mem, u.buffer_, u.size_,
                                          new_size - u.size_, rs.k)
    IN IF new_size > t.size_
       THEN IF rs.res # "ok" THEN rs
            ELSE IF c.threw THEN Outcome(rs.vec, c.mem, "T_exception", 0, 0)
            ELSE Outcome([rs.vec EXCEPT ![v].size_ = new_size], c.mem, "ok", 0, c.k)
       ELSE Outcome([V EXCEPT ![v].size_ = new_size],
                    DestroyN(m, t.buffer_, new_size, t.size_ - new_size), "ok", 0, k)

\* Vector::PopBack (precondition: size_ > 0)
PopBack(V, m, v) ==
    Outcome([V EXCEPT ![v].size_ = @ - 1],
            DestroyN(m, V[v].buffer_, V[v].size_ - 1, 1), "ok", 0, 0)

\* operator[](index) = x: a write through the reference operator[] returns
WriteAt(V, m, v, index, x) ==
    Outcome(V, Flag(MapSlots(m, V[v].buffer_, index, 1, Fill(1, Obj(x))),
                    AnyRaw(m, V[v].buffer_, index, 1), "read_raw"),
            "ok", 0, 0)

\* ---- Vector: positional mutation ----

\* CheckIterator testing pos against the end of the block, not of the elements
CheckIteratorToCapacity(t, pos) == ~(pos < 0 \/ pos > t.capacity_)

\* Vector::CheckIterator: TRUE when it does not throw std::out_of_range
CheckIterator(t, pos) == ~(pos < 0 \/ pos > t.size_)

\* growth by one slot instead of doubling
NewCapacityPlusOne(t) == t.capacity_ + 1

\* the capacity of the block Emplace allocates when it reallocates
NewCapacity(t) == IF t.capacity_ = 0 THEN 1 ELSE t.capacity_ * 2

\* EmplaceShift with the backward shift started one element late:
\* std::move_backward(data_ + element_number + 1, ..)
EmplaceShiftOneShort(V, m, v, pos, x, k) ==
    LET t == V[v]
        b == t.buffer_
        mayThrow == ~nothrowMove
        k1 == Tick(k, 1)
        k2 == IF mayThrow THEN Tick(k1, 1) ELSE k1
        na == t.size_ - 2 - pos
        shiftThrew == mayThrow /\ k2 >= 1 /\ k2 <= na
        k3 == IF mayThrow THEN Tick(k2, na) ELSE k2
        tail == UninitializedMoveN(m, b, t.size_ - 1, 1, b, t.size_)
        shifted == MoveBackward(tail, b, t.size_ - 1, t.size_,
                                IF shiftThrew THEN k2 - 1 ELSE na)
    IN IF k = 1 THEN Outcome(V, m, "T_exception", 0, 0)
       ELSE IF mayThrow /\ k1 = 1 THEN Outcome(V, m, "T_exception", 0, 0)
       ELSE IF shiftThrew THEN Outcome(V, shifted, "T_exception", 0, 0)
       ELSE IF mayThrow /\ k3 = 1 THEN Outcome(V, shifted, "T_exception", 0, 0)
       ELSE Outcome([V EXCEPT ![v].size_ = @ + 1],
                    MapSlots(shifted, b, pos, 1, Fill(1, Obj(x))),
                    "ok", pos, IF mayThrow THEN Tick(k3, 1) ELSE k3)

\* Emplace, size_ != Capacity() and element_number != size_: a temporary,
\* the last element move-constructed into the tail slot, the backward shift,
\* the assignment into element_number
EmplaceShift(V, m, v, pos, x, k) ==
    LET t == V[v]
        b == t.buffer_
        mayThrow == ~nothrowMove
        k1 == Tick(k, 1)
        k2 == IF mayThrow THEN Tick(k1, 1) ELSE k1
        na == t.size_ - 1 - pos
        shiftThrew == mayThrow /\ k2 >= 1 /\ k2 <= na
        k3 == IF mayThrow THEN Tick(k2, na) ELSE k2
        tail == UninitializedMoveN(m, b, t.size_ - 1, 1, b, t.size_)
        shifted == MoveBackward(tail, b, t.size_ - 1, t.size_,
                                IF shiftThrew THEN k2 - 1 ELSE na)
    IN IF k = 1 THEN Outcome(V, m, "T_exception", 0, 0)
       ELSE IF mayThrow /\ k1 = 1 THEN Outcome(V, m, "T_exception", 0, 0)
       ELSE IF shiftThrew THEN Outcome(V, shifted, "T_exception", 0, 0)
       ELSE IF mayThrow /\ k3 = 1 THEN Outcome(V, shifted, "T_exception", 0, 0)
       ELSE Outcome([V EXCEPT ![v].size_ = @ + 1],
                    MapSlots(shifted, b, pos, 1, Fill(1, Obj(x))),
                    "ok", pos, IF mayThrow THEN Tick(k3, 1) ELSE k3)

\* EmplaceRealloc without the catch around the prefix relocation: the new
\* element is still alive when the new block is released
EmplaceReallocNoCatch(V, m, v, pos, x, k) ==
    LET t == V[v]
        a == Allocate(m, NewCapacity(t), k)
        m1 == ConstructAt(a.mem, a.b, pos, x)
        pre == Relocate(m1, t.buffer_, 0, pos, a.b, 0, Tick(a.k, 1))
        suf == Relocate(pre.mem, t.buffer_, pos, t.size_ - pos, a.b, pos + 1, pre.k)
    IN IF a.threw THEN Outcome(V, m, "bad_alloc", 0, 0)
       ELSE IF a.k = 1 THEN Outcome(V, Deallocate(a.mem, a.b), "T_exception", 0, 0)
       ELSE IF pre.threw THEN Outcome(V, Deallocate(pre.mem, a.b), "T_exception", 0, 0)
       ELSE IF suf.threw
       THEN Outcome(V, Deallocate(DestroyN(suf.mem, a.b, 0, pos + 1), a.b),
                    "T_exception", 0, 0)
       ELSE Outcome([V EXCEPT ![v].buffer_ = a.b, ![v].capacity_ = NewCapacity(t),
                              ![v].size_ = @ + 1],
                    Deallocate(DestroyN(suf.mem, t.buffer_, 0, t.size_), t.buffer_),
                    "ok", pos, suf.k)

\* EmplaceRealloc with std::destroy_n(new_data, element_number) in the second
\* catch: the new element outlives the failed suffix relocation
EmplaceReallocShortCleanup(V, m, v, pos, x, k) ==
    LET t == V[v]
        a == Allocate(m, NewCapacity(t), k)
        m1 == ConstructAt(a.mem, a.b, pos, x)
        pre == Relocate(m1, t.buffer_, 0, pos, a.b, 0, Tick(a.k, 1))
        suf == Relocate(pre.mem, t.buffer_, pos, t.size_ - pos, a.b, pos + 1, pre.k)
    IN IF a.threw THEN Outcome(V, m, "bad_alloc", 0, 0)
       ELSE IF a.k = 1 THEN Outcome(V, Deallocate(a.mem, a.b), "T_exception", 0, 0)
       ELSE IF pre.threw
       THEN Outcome(V, Deallocate(DestroyN(pre.mem, a.b, pos, 1), a.b), "T_exception", 0, 0)
       ELSE IF suf.threw
       THEN Outcome(V, Deallocate(DestroyN(suf.mem, a.b, 0, pos), a.b),
                    "T_exception", 0, 0)
       ELSE Outcome([V EXCEPT ![v].buffer_ = a.b, ![v].capacity_ = NewCapacity(t),
                              ![v].size_ = @ + 1],
                    Deallocate(DestroyN(suf.mem, t.buffer_, 0, t.size_), t.buffer_),
                    "ok", pos, suf.k)

\* Emplace, size_ == Capacity() or Capacity() == 0: a new block, the new
\* element first, then the prefix and the suffix relocated around it
EmplaceRealloc(V, m, v, pos, x, k) ==
    LET t == V[v]
        a == Allocate(m, NewCapacity(t), k)
        m1 == ConstructAt(a.mem, a.b, pos, x)
        pre == Relocate(m1, t.buffer_, 0, pos, a.b, 0, Tick(a.k, 1))
        suf == Relocate(pre.mem, t.buffer_, pos, t.size_ - pos, a.b, pos + 1, pre.k)
    IN IF a.threw THEN Outcome(V, m, "bad_alloc", 0, 0)
       ELSE IF a.k = 1 THEN Outcome(V, Deallocate(a.mem, a.b), "T_exception", 0, 0)
       ELSE IF pre.threw
       THEN Outcome(V, Deallocate(DestroyN(pre.mem, a.b, pos, 1), a.b), "T_exception", 0, 0)
       ELSE IF suf.threw
       THEN Outcome(V, Deallocate(DestroyN(suf.mem, a.b, 0, pos + 1), a.b),
                    "T_exception", 0, 0)
       ELSE Outcome([V EXCEPT ![v].buffer_ = a.b, ![v].capacity_ = NewCapacity(t),
                              ![v].size_ = @ + 1],
                    Deallocate(DestroyN(suf.mem, t.buffer_, 0, t.size_), t.buffer_),
                    "ok", pos, suf.k)

\* Emplace that moves to a new block whether the array is full or not
EmplaceAlwaysReallocs(V, m, v, pos, x, k) ==
    IF ~CheckIterator(V[v], pos) THEN Outcome(V, m, "out_of_range", 0, k)
    ELSE EmplaceRealloc(V, m, v, pos, x, k)

\* Vector::Emplace(pos, args...), args constructing a T of value x
Emplace(V, m, v, pos, x, k) ==
    LET t == V[v]
    IN IF ~CheckIterator(t, pos) THEN Outcome(V, m, "out_of_range", 0, k)
       ELSE IF t.size_ # t.capacity_ /\ t.capacity_ # 0
       THEN IF pos # t.size_ THEN EmplaceShift(V, m, v, pos, x, k)
            ELSE IF k = 1 THEN Outcome(V, m, "T_exception", 0, 0)
            ELSE Outcome([V EXCEPT ![v].size_ = @ + 1],
                         ConstructAt(m, t.buffer_, pos, x), "ok", pos, Tick(k, 1))
       ELSE EmplaceRealloc(V, m, v, pos, x, k)

\* Vector::EmplaceBack: Emplace(end(), args...)
EmplaceBack(V, m, v, x, k) == Emplace(V, m, v, V[v].size_, x, k)

\* PushBack emplacing at begin() instead of end()
PushBackAtFront(V, m, v, value, k) == Emplace(V, m, v, 0, value, k)

\* Vector::PushBack
PushBack(V, m, v, value, k) == EmplaceBack(V, m, v, value, k)

\* Insert emplacing behind the element at pos instead of before it
InsertAfterPos(V, m, v, pos, value, k) == Emplace(V, m, v, pos + 1, value, k)

\* Vector::Insert
Insert(V, m, v, pos, value, k) == Emplace(V, m, v, pos, value, k)

\* the value of the T a reference to data_[index] denotes when it is read
\* in memory m
ElementAt(m, b, index) ==
    LET s == Slot(m, b, index + 1) IN IF IsLive(s) THEN s[1] ELSE Default

\* an Emplace of a reference to data_[index] that assigns from the reference
\* after the shift, with no temporary: data_[element_number] = value
EmplaceRefReadsAfterShift(V, m, v, pos, index, k) ==
    LET t == V[v]
        o == Emplace(V, m, v, pos, ElementAt(m, t.buffer_, index), k)
        late == IF index < pos THEN ElementAt(m, t.buffer_, index)
                ELSE IF index = pos THEN MovedFrom
                ELSE ElementAt(m, t.buffer_, index - 1)
    IN IF CheckIterator(t, pos) /\ t.size_ # t.capacity_ /\ t.capacity_ # 0
          /\ pos # t.size_ /\ o.res = "ok"
       THEN [o EXCEPT !.mem = MapSlots(@, t.buffer_, pos, 1, Fill(1, Obj(late)))]
       ELSE o

\* Vector::Emplace(pos, data_[index]): the argument is a reference to an
\* element of the array itself, read where the code constructs a T from it:
\* the temporary of the in-place shift, the placement new of the in-place
\* append, the placement new into the new block once it is allocated
EmplaceRef(V, m, v, pos, index, k) ==
    LET t == V[v]
        a == Allocate(m, NewCapacity(t), k)
        o == IF ~CheckIterator(t, pos) THEN Outcome(V, m, "out_of_range", 0, k)
             ELSE IF t.size_ # t.capacity_ /\ t.capacity_ # 0
             THEN IF pos # t.size_
                  THEN EmplaceShift(V, m, v, pos, ElementAt(m, t.buffer_, index), k)
                  ELSE Emplace(V, m, v, pos, ElementAt(m, t.buffer_, index), k)
             ELSE EmplaceRealloc(V, m, v, pos, ElementAt(a.mem, t.buffer_, index), k)
    IN [o EXCEPT !.mem = Flag(@, CheckIterator(t, pos) /\ AnyRaw(m, t.buffer_, index, 1),
                              "read_raw")]

\* Vector::PushBack(const T&) called as v.PushBack(v[index])
PushBackRef(V, m, v, index, k) == EmplaceRef(V, m, v, V[v].size_, index, k)

\* Vector::Insert(pos, const T&) called as v.Insert(pos, v[index])
InsertRef(V, m, v, pos, index, k) == EmplaceRef(V, m, v, pos, index, k)

\* What Erase(end()) can do: CheckIterator lets pos == end() through, and the
\* range [pos + 1, end()) handed to std::move then has first > last.
\* "abort": an assert of RawMemory fires or the copy runs off the block;
\* "no_shift": std::move copies nothing and Erase goes on.
EraseEndOutcomes == {"abort", "no_shift"}

\* Erase without the shift of line 286: the last element goes, whatever pos
EraseDropsLast(V, m, v, pos, k, u) ==
    LET t == V[v]
    IN IF ~CheckIterator(t, pos) THEN Outcome(V, m, "out_of_range", 0, k)
       ELSE IF t.size_ = 0 THEN Outcome(V, m, "corrupt", 0, k)
       ELSE Outcome([V EXCEPT ![v].size_ = @ - 1],
                    DestroyN(m, t.buffer_, t.size_ - 1, 1), "ok", pos, k)

\* Vector::Erase
Erase(V, m, v, pos, k, u) ==
    LET t == V[v]
        na == t.size_ - 1 - pos
        threw == ~nothrowMove /\ k >= 1 /\ k <= na
        shifted == MoveForward(m, t.buffer_, pos + 1, pos, IF threw THEN k - 1 ELSE na)
    IN IF ~CheckIterator(t, pos) THEN Outcome(V, m, "out_of_range", 0, k)
       ELSE IF pos = t.size_
       THEN IF u = "abort" THEN Outcome(V, m, "abort", 0, k)
            ELSE IF t.size_ = 0 THEN Outcome(V, m, "corrupt", 0, k)
            ELSE Outcome([V EXCEPT ![v].size_ = @ - 1],
                         DestroyN(m, t.buffer_, t.size_ - 1, 1), "ok", pos, k)
       ELSE IF threw THEN Outcome(V, shifted, "T_exception", 0, 0)
       ELSE Outcome([V EXCEPT ![v].size_ = @ - 1],
                    DestroyN(shifted, t.buffer_, t.size_ - 1, 1), "ok", pos,
                    IF nothrowMove THEN k ELSE Tick(k, na))

\* ---- the state machine ----

\* call: the last call made, on which array, and how it ended
NoCall == [op |-> "none", v |-> "a", res |-> "ok"]

Init ==
    /\ vec = [v \in Arrays |-> IF v = "a" THEN EmptyVector ELSE NoVector]
    /\ mem = [heap |-> [b \in BufIds |-> FreeBlock], errs |-> {}]
    /\ nothrowMove \in BOOLEAN
    /\ call = NoCall

\* the process is still running and the arrays' memory has not been trampled
Running == call.res \notin {"abort", "corrupt"}

\* the elements of a set of block ids, in ascending order
RECURSIVE Ascending(_)
Ascending(S) == IF S = {} THEN <<>> ELSE <<Min(S)>> \o Ascending(S \ {Min(S)})

\* An address is only ever compared with another for equality, so the
\* states between calls are kept up to a renaming of the blocks: array
\* "a"'s block first, then array "b"'s, then the others by id.
BlockOrder(V) ==
    LET a == V["a"].buffer_
        b == V["b"].buffer_
    IN (IF a # Nullptr THEN <<a>> ELSE <<>>)
       \o (IF b # Nullptr /\ b # a THEN <<b>> ELSE <<>>)
       \o Ascending(BufIds \ {a, b})

\* (nothing to rename when the arrays' blocks already come first)
Renamed(V, m) ==
    LET a == V["a"].buffer_
        b == V["b"].buffer_
        ord == BlockOrder(V)
        id(c) == IF c = Nullptr THEN Nullptr ELSE CHOOSE i \in BufIds : ord[i] = c
    IN IF (a = Nullptr \/ a = 1) /\ (b \in {Nullptr, a} \/ b = (IF a = Nullptr THEN 1 ELSE 2))
       THEN [vec |-> V, mem |-> m]
       ELSE [vec |-> [v \in Arrays |-> [V[v] EXCEPT !.buffer_ = id(@)]],
             mem |-> [m EXCEPT !.heap = [i \in BufIds |-> m.heap[ord[i]]]]]

\* o.k = 0: the fault index named a step the call took (or none); an index
\* past the call's last throwing step is the call with k = 0 over again
Apply(o, op, v) ==
    /\ o.k = 0
    /\ vec' = Renamed(o.vec, o.mem).vec
    /\ mem' = Renamed(o.vec, o.mem).mem
    /\ call' = [op |-> op, v |-> v, res |-> o.res]
    /\ UNCHANGED nothrowMove

Usable(v) == Running /\ vec[v].alive

\* the throwing-capable steps of a call, o its outcome under NoFault: the
\* fault indexes worth trying on it are 0 .. Steps(o)
Steps(o) == NoFault - o.k

\* mem.errs logs what the last call did wrong with the memory, and no more
Mem == [mem EXCEPT !.errs = {}]

CallReserve(v, maxCap) ==
    /\ Usable(v)
    /\ \E c \in 0 .. maxCap :
         \E k \in 0 .. Steps(Reserve(vec, Mem, v, c, NoFault)) :
           Apply(Reserve(vec, Mem, v, c, k), "Reserve", v)

CallResize(v, maxCap) ==
    /\ Usable(v)
    /\ \E n \in 0 .. maxCap :
         \E k \in 0 .. Steps(Resize(vec, Mem, v, n, NoFault)) :
           Apply(Resize(vec, Mem, v, n, k), "Resize", v)

CallPopBack(v) ==
    Usable(v) /\ vec[v].size_ > 0 /\ Apply(PopBack(vec, Mem, v), "PopBack", v)

\* the block Emplace would need fits the model
Fits(v, maxCap) ==
    \/ vec[v].size_ # vec[v].capacity_ /\ vec[v].capacity_ # 0
    \/ NewCapacity(vec[v]) <= maxCap

CallPushBack(v, maxCap) ==
    /\ Usable(v)
    /\ Fits(v, maxCap)
    /\ \E x \in Values :
         \E k \in 0 .. Steps(PushBack(vec, Mem, v, x, NoFault)) :
           Apply(PushBack(vec, Mem, v, x, k), "PushBack", v)

CallInsert(v, maxCap) ==
    /\ Usable(v)
    /\ \E pos \in (0 - 1) .. (vec[v].size_ + 1), x \in Values :
         /\ Fits(v, maxCap) \/ ~CheckIterator(vec[v], pos)
         /\ \E k \in 0 .. Steps(Insert(vec, Mem, v, pos, x, NoFault)) :
              Apply(Insert(vec, Mem, v, pos, x, k), "Insert", v)

\* v.Insert(pos, v[index]), index < size_ as operator[] requires
CallInsertRef(v, maxCap) ==
    /\ Usable(v)
    /\ Fits(v, maxCap)
    /\ \E pos \in 0 .. vec[v].size_, index \in 0 .. (vec[v].size_ - 1) :
         \E k \in 0 .. Steps(InsertRef(vec, Mem, v, pos, index, NoFault)) :
           Apply(InsertRef(vec, Mem, v, pos, index, k), "Insert(v[i])", v)

CallErase(v) ==
    /\ Usable(v)
    /\ \E pos \in (0 - 1) .. (vec[v].size_ + 1) :
         \E u \in IF pos = vec[v].size_ THEN EraseEndOutcomes ELSE {"no_shift"} :
           \E k \in 0 .. Steps(Erase(vec, Mem, v, pos, NoFault, u)) :
             Apply(Erase(vec, Mem, v, pos, k, u), "Erase", v)

Next ==
    \/ CallReserve("a", MaxCap)
    \/ CallResize("a", MaxCap)
    \/ CallPopBack("a")
    \/ CallPushBack("a", MaxCap)
    \/ CallInsert("a", MaxCap)
    \/ CallInsertRef("a", MaxCap)
    \/ CallErase("a")

Spec == Init /\ [][Next]_vars

\* ---- two arrays: construction, destruction, assignment, Swap ----

Constructible(v) == Running /\ ~vec[v].alive

CallDefaultCtor(v) ==
    Constructible(v) /\ Apply(DefaultCtor(vec, Mem, v), "Vector", v)

CallSizedCtor(v, maxCap) ==
    /\ Constructible(v)
    /\ \E n \in 0 .. maxCap :
         \E k \in 0 .. Steps(SizedCtor(vec, Mem, v, n, NoFault)) :
           Apply(SizedCtor(vec, Mem, v, n, k), "Vector(n)", v)

CallCopyCtor(v, other) ==
    /\ Constructible(v)
    /\ Usable(other)
    /\ \E k \in 0 .. Steps(CopyCtor(vec, Mem, v, other, NoFault)) :
         Apply(CopyCtor(vec, Mem, v, other, k), "Vector(const&)", v)

CallMoveCtor(v, other) ==
    /\ Constructible(v)
    /\ Usable(other)
    /\ Apply(MoveCtor(vec, Mem, v, other), "Vector(&&)", v)

CallDtor(v) ==
    Usable(v) /\ Apply(Dtor(vec, Mem, v), "~Vector", v)

CallCopyAssign(v, rhs) ==
    /\ Usable(v)
    /\ Usable(rhs)
    /\ \E k \in 0 .. Steps(CopyAssign(vec, Mem, v, rhs, NoFault)) :
         Apply(CopyAssign(vec, Mem, v, rhs, k), "=(const&)", v)

CallMoveAssign(v, rhs) ==
    Usable(v) /\ Usable(rhs) /\ Apply(MoveAssignVector(vec, Mem, v, rhs), "=(&&)", v)

CallSwap(v, other) ==
    Usable(v) /\ Usable(other) /\ Apply(Swap(vec, Mem, v, other), "Swap", v)

NextTwo ==
    \/ \E v \in Arrays : CallDefaultCtor(v)
    \/ \E v \in Arrays : CallSizedCtor(v, MaxCapTwo)
    \/ \E v \in Arrays, o \in Arrays : CallCopyCtor(v, o)
    \/ \E v \in Arrays, o \in Arrays : CallMoveCtor(v, o)
    \/ \E v \in Arrays : CallDtor(v)
    \/ \E v \in Arrays, r \in Arrays : CallCopyAssign(v, r)
    \/ \E v \in Arrays, r \in Arrays : CallMoveAssign(v, r)
    \/ \E v \in Arrays, o \in Arrays : CallSwap(v, o)
    \/ \E v \in Arrays : CallReserve(v, MaxCapTwo)
    \/ \E v \in Arrays : CallResize(v, MaxCapTwo)
    \/ \E v \in Arrays : CallPopBack(v)
    \/ \E v \in Arrays : CallPushBack(v, MaxCapTwo)

SpecTwo == Init /\ [][NextTwo]_vars

\* ---- what the claims speak of ----

\* the elements of array v, in order
Elems(V, m, v) == [i \in 1 .. V[v].size_ |-> Slot(m, V[v].buffer_, i)]

\* sequence s with e put before its element of index p (0-based)
InsertAt(s, p, e) == SubSeq(s, 1, p) \o <<e>> \o SubSeq(s, p + 1, Len(s))

\* sequence s without its element of index p (0-based)
RemoveAt(s, p) == SubSeq(s, 1, p) \o SubSeq(s, p + 2, Len(s))

\* the live objects of the whole heap
LiveSlots(m) == {<<b, i>> \in BufIds \X (1 .. (2 * MaxCap)) : IsLive(Slot(m, b, i))}

\* C1: between operations, also after one that threw, every array has
\* 0 <= size <= capacity, a live element in each slot of [0, size) and raw
\* storage in each slot of [size, capacity).
C1_LivePrefixRawTail ==
    \A v \in Arrays :
        vec[v].alive =>
            /\ 0 <= vec[v].size_
            /\ vec[v].size_ <= vec[v].capacity_
            /\ \A i \in 1 .. vec[v].capacity_ :
                   IsLive(Slot(mem, vec[v].buffer_, i)) <=> i <= vec[v].size_

\* C2: no block is owned by two arrays, no call releases a block twice or
\* destroys an element twice, a block an array owns has not been released,
\* and destroying an array destroys its size elements once each, releases
\* its block once and touches no other block and no other array.
C2_SingleOwnerNoDoubleRelease ==
    /\ \A v, w \in Arrays :
           (v # w /\ vec[v].buffer_ # Nullptr) => vec[v].buffer_ # vec[w].buffer_
    /\ \A v \in Arrays : vec[v].buffer_ # Nullptr => mem.heap[vec[v].buffer_].alloc
    /\ mem.errs \cap {"double_free", "destroy_raw"} = {}
    /\ \A v \in Arrays :
           vec[v].alive =>
               LET o == Dtor(vec, Mem, v)
                   b == vec[v].buffer_
               IN /\ o.mem.errs \subseteq {"freed_live"}
                  /\ "freed_live" \in o.mem.errs =>
                         \E i \in (vec[v].size_ + 1) .. vec[v].capacity_ :
                             IsLive(Slot(mem, b, i))
                  /\ ~o.vec[v].alive
                  /\ b # Nullptr => ~o.mem.heap[b].alloc
                  /\ \A c \in BufIds \ {b} : o.mem.heap[c] = mem.heap[c]
                  /\ \A w \in Arrays \ {v} : o.vec[w] = vec[w]

\* an array was destroyed while the other one holds elements in its own block
C2_Witness ==
    \E v, w \in Arrays :
        /\ v # w
        /\ call = [op |-> "~Vector", v |-> v, res |-> "ok"]
        /\ vec[w].alive
        /\ vec[w].size_ > 0

\* C3: move-assigning rhs to another array that holds elements destroys each
\* of the target's elements once and releases the target's block once; the
\* target then has rhs's elements and capacity and rhs has size 0, capacity 0.
C3_MoveAssignReleasesTarget ==
    \A v, r \in Arrays :
        (v # r /\ vec[v].alive /\ vec[r].alive /\ vec[v].size_ > 0) =>
            LET o == MoveAssignVector(vec, Mem, v, r)
            IN /\ o.mem.errs = {}
               /\ ~o.mem.heap[vec[v].buffer_].alloc
               /\ Elems(o.vec, o.mem, v) = Elems(vec, mem, r)
               /\ o.vec[v].capacity_ = vec[r].capacity_
               /\ o.vec[r].size_ = 0
               /\ o.vec[r].capacity_ = 0

\* C4: for a T relocated by copy, Reserve(c) with c > capacity fails when the
\* allocation or the k-th copy throws, and a failed Reserve leaves the array,
\* its elements and every block as they were, with no copy left alive.
C4_ReserveStrongGuarantee ==
    ~nothrowMove =>
        \A c \in 0 .. MaxCap, k \in Faults :
            LET t == vec["a"]
                o == Reserve(vec, Mem, "a", c, k)
            IN /\ (c > t.capacity_ /\ k = 1) => o.res = "bad_alloc"
               /\ (c > t.capacity_ /\ k >= 2 /\ k <= 1 + t.size_) => o.res = "T_exception"
               /\ o.res # "ok" => o.vec = vec /\ o.mem.heap = mem.heap /\ o.mem.errs = {}

\* a Reserve of an array of two or more elements ended by a copy throwing
C4_Witness ==
    /\ ~nothrowMove
    /\ call = [op |-> "Reserve", v |-> "a", res |-> "T_exception"]
    /\ vec["a"].size_ >= 2

\* C5: an Insert/Emplace at a position of [0, size] that fails leaves the
\* array's size, capacity and element values as they were.
C5_InsertStrongGuarantee ==
    \A pos \in 0 .. vec["a"].size_, x \in Values, k \in Faults :
        LET o == Insert(vec, Mem, "a", pos, x, k)
        IN o.res # "ok" =>
               /\ o.vec["a"].size_ = vec["a"].size_
               /\ o.vec["a"].capacity_ = vec["a"].capacity_
               /\ Elems(o.vec, o.mem, "a") = Elems(vec, mem, "a")

\* C6: a Resize(n) that fails leaves the array's size, capacity and element
\* values as they were and leaves no element it constructed alive.
C6_ResizeStrongGuarantee ==
    \A n \in 0 .. MaxCap, k \in Faults :
        LET o == Resize(vec, Mem, "a", n, k)
        IN o.res # "ok" =>
               /\ o.vec["a"].size_ = vec["a"].size_
               /\ o.vec["a"].capacity_ = vec["a"].capacity_
               /\ Elems(o.vec, o.mem, "a") = Elems(vec, mem, "a")
               /\ Cardinality(LiveSlots(o.mem)) = Cardinality(LiveSlots(mem))
               /\ "freed_live" \notin o.mem.errs

\* C7: PushBack fails when the allocation, the construction of the new
\* element or a relocation copy throws, and a failed PushBack leaves the
\* array, its elements and every block as they were: what it constructed in
\* the new block is destroyed and the new block released.
C7_PushBackStrongGuarantee ==
    \A x \in Values, k \in Faults :
        LET t == vec["a"]
            o == PushBack(vec, Mem, "a", x, k)
            grows == t.size_ = t.capacity_
        IN /\ (grows /\ k = 1) => o.res = "bad_alloc"
           /\ (grows /\ k = 2) => o.res = "T_exception"
           /\ (grows /\ ~nothrowMove /\ k >= 3 /\ k <= 2 + t.size_) => o.res = "T_exception"
           /\ (~grows /\ k = 1) => o.res = "T_exception"
           /\ o.res # "ok" => o.vec = vec /\ o.mem.heap = mem.heap /\ o.mem.errs = {}

\* a PushBack that had to grow a non-empty array ended by an element throwing
C7_Witness ==
    /\ call = [op |-> "PushBack", v |-> "a", res |-> "T_exception"]
    /\ vec["a"].size_ >= 1
    /\ vec["a"].size_ = vec["a"].capacity_

\* C8: Insert/Emplace at a position outside [0, size] throws out_of_range
\* and has allocated, constructed and shifted nothing.
C8_InsertInvalidPosition ==
    \A pos \in {0 - 1, vec["a"].size_ + 1, vec["a"].size_ + 2}, x \in Values, k \in Faults :
        LET o == Insert(vec, Mem, "a", pos, x, k)
        IN o.res = "out_of_range" /\ o.vec = vec /\ o.mem = Mem

\* an Insert on a non-empty array with spare capacity ended by out_of_range
C8_Witness ==
    /\ call = [op |-> "Insert", v |-> "a", res |-> "out_of_range"]
    /\ vec["a"].size_ >= 1
    /\ vec["a"].size_ < vec["a"].capacity_

\* C9: Erase at a position outside [0, size), the end position included,
\* throws out_of_range and leaves the array and the memory as they were.
C9_EraseInvalidPosition ==
    \A pos \in {0 - 1, vec["a"].size_, vec["a"].size_ + 1}, k \in Faults,
       u \in EraseEndOutcomes :
        LET o == Erase(vec, Mem, "a", pos, k, u)
        IN o.res = "out_of_range" /\ o.vec = vec /\ o.mem = Mem

\* C10: a successful Insert(p, x), p in [0, size], yields s[0..p) ++ [x] ++
\* s[p..size) and returns p; a successful Erase(p), p in [0, size), yields
\* s[0..p) ++ s[p+1..size), keeps the capacity and returns p.
C10_OrderPreservation ==
    LET s == Elems(vec, mem, "a")
    IN /\ \A p \in 0 .. Len(s), x \in Values, k \in {0, MaxFault} :
              LET o == Insert(vec, Mem, "a", p, x, k)
              IN o.res = "ok" =>
                     /\ Elems(o.vec, o.mem, "a") = InsertAt(s, p, Obj(x))
                     /\ o.ret = p
       /\ \A p \in 0 .. (Len(s) - 1), k \in {0, MaxFault} :
              LET o == Erase(vec, Mem, "a", p, k, "no_shift")
              IN o.res = "ok" =>
                     /\ Elems(o.vec, o.mem, "a") = RemoveAt(s, p)
                     /\ o.vec["a"].capacity_ = vec["a"].capacity_
                     /\ o.ret = p

\* an Insert succeeded in place on an array that then has three elements
C10_Witness ==
    /\ call = [op |-> "Insert", v |-> "a", res |-> "ok"]
    /\ vec["a"].size_ = 3
    /\ vec["a"].capacity_ = 3
    /\ Elems(vec, mem, "a")[1] # Elems(vec, mem, "a")[2]

\* the memory a call leaves, as the next call finds it
After(o) == [o.mem EXCEPT !.errs = {}]

\* C11: for every position p of [0, size], Erase at the position a successful
\* Insert(p, x) returned succeeds and gives back the size and the element
\* sequence the array had before the Insert, reallocated or not.
C11_InsertEraseInverse ==
    \A p \in 0 .. vec["a"].size_, x \in Values :
        LET i == Insert(vec, Mem, "a", p, x, 0)
            e == Erase(i.vec, After(i), "a", i.ret, 0, "no_shift")
        IN /\ i.res = "ok"
           /\ i.vec["a"].size_ = vec["a"].size_ + 1
           /\ e.res = "ok"
           /\ e.vec["a"].size_ = vec["a"].size_
           /\ Elems(e.vec, e.mem, "a") = Elems(vec, mem, "a")

\* an Erase succeeded and left two or more elements, of which the first two
\* differ, in a block with room for an Insert in place
C11_Witness ==
    /\ call = [op |-> "Erase", v |-> "a", res |-> "ok"]
    /\ vec["a"].size_ >= 2
    /\ vec["a"].size_ < vec["a"].capacity_
    /\ Elems(vec, mem, "a")[1] # Elems(vec, mem, "a")[2]

\* the pushes of a run of PushBack calls
MaxPush == 2 * MaxCap

\* the elements Emplace at pos relocates into a new block: element_number of
\* them before the new element and size_ - element_number after it, none
\* when it emplaces in place
Relocations(t, pos) ==
    IF t.size_ # t.capacity_ /\ t.capacity_ # 0 THEN 0 ELSE pos + (t.size_ - pos)

\* PushBack(1), PushBack(2), ..., PushBack(n) on array v, none throwing:
\* the arrays and the memory after them, whether all succeeded, and the
\* relocations they made
RECURSIVE PushBackRun(_, _, _, _)
PushBackRun(V, m, v, n) ==
    IF n = 0 THEN [vec |-> V, mem |-> m, ok |-> TRUE, relocations |-> 0]
    ELSE LET p == PushBackRun(V, m, v, n - 1)
             o == PushBack(p.vec, p.mem, v, n, 0)
         IN [vec |-> o.vec, mem |-> After(o),
             ok |-> p.ok /\ o.res = "ok",
             relocations |-> p.relocations + Relocations(p.vec[v], p.vec[v].size_)]

\* C12: on an empty array, after k PushBack calls Size() is k and the
\* elements are the pushed values in push order; each call leaves
\* Capacity() at least what it was and at least Size().
C12_PushBackSequence ==
    vec["a"].size_ = 0 =>
        \A n \in 1 .. MaxPush :
            LET p == PushBackRun(vec, Mem, "a", n - 1)
                q == PushBackRun(vec, Mem, "a", n)
            IN /\ q.ok
               /\ q.vec["a"].size_ = n
               /\ Elems(q.vec, q.mem, "a") = [i \in 1 .. n |-> Obj(i)]
               /\ q.vec["a"].capacity_ >= p.vec["a"].capacity_
               /\ q.vec["a"].capacity_ >= q.vec["a"].size_

\* two PushBack calls have filled an array that has grown to capacity 2
C12_Witness ==
    /\ call = [op |-> "PushBack", v |-> "a", res |-> "ok"]
    /\ vec["a"].size_ = 2
    /\ vec["a"].capacity_ = 2
    /\ \A i \in 1 .. 2 : Elems(vec, mem, "a")[i] \in {Obj(x) : x \in Values}

\* array w and its block are in o what they are in V and m
Untouched(V, m, o, w) ==
    /\ o.vec[w] = V[w]
    /\ V[w].buffer_ # Nullptr => o.mem.heap[V[w].buffer_] = m.heap[V[w].buffer_]
    /\ Elems(o.vec, o.mem, w) = Elems(V, m, w)

\* no call that changes array v touches array w: Reserve, Resize, PushBack,
\* Insert, Erase, PopBack and element writes, every argument, every step
\* throwing in turn
Independent(V, m, v, w) ==
    LET n == V[v].size_
    IN /\ \A c \in 0 .. MaxCap :
              /\ \A k \in 0 .. Steps(Reserve(V, m, v, c, NoFault)) :
                     Untouched(V, m, Reserve(V, m, v, c, k), w)
              /\ \A k \in 0 .. Steps(Resize(V, m, v, c, NoFault)) :
                     Untouched(V, m, Resize(V, m, v, c, k), w)
       /\ \A x \in Values :
              /\ \A k \in 0 .. Steps(PushBack(V, m, v, x, NoFault)) :
                     Untouched(V, m, PushBack(V, m, v, x, k), w)
              /\ \A p \in 0 .. n :
                     \A k \in 0 .. Steps(Insert(V, m, v, p, x, NoFault)) :
                         Untouched(V, m, Insert(V, m, v, p, x, k), w)
              /\ \A i \in 0 .. (n - 1) : Untouched(V, m, WriteAt(V, m, v, i, x), w)
       /\ \A p \in 0 .. (n - 1) :
              \A k \in 0 .. Steps(Erase(V, m, v, p, NoFault, "no_shift")) :
                  Untouched(V, m, Erase(V, m, v, p, k, "no_shift"), w)
       /\ n > 0 => Untouched(V, m, PopBack(V, m, v), w)

\* C13: an array w copy-constructed from v has v's size and element values,
\* capacity exactly v's size and a block of its own, and v is as it was;
\* whatever a mutating call (PushBack, Insert, Erase, Resize, Reserve,
\* PopBack, an element write) then does to one of two arrays, failing or
\* not, the other keeps its size, its capacity and its element values.
C13_CopyIndependence ==
    \A v, w \in Arrays :
        /\ (vec[v].alive /\ ~vec[w].alive) =>
               LET c == CopyCtor(vec, Mem, w, v, 0)
               IN /\ c.res = "ok"
                  /\ c.vec[w].alive
                  /\ c.vec[w].size_ = vec[v].size_
                  /\ c.vec[w].capacity_ = vec[v].size_
                  /\ Elems(c.vec, c.mem, w) = Elems(vec, mem, v)
                  /\ c.vec[w].buffer_ = Nullptr \/ c.vec[w].buffer_ # vec[v].buffer_
                  /\ Untouched(vec, mem, c, v)
        /\ (v # w /\ vec[v].alive /\ vec[w].alive) => Independent(vec, Mem, v, w)

\* an array has just been copy-constructed from one that holds an element
C13_Witness ==
    \E v, w \in Arrays :
        /\ v # w
        /\ call = [op |-> "Vector(const&)", v |-> w, res |-> "ok"]
        /\ vec[v].alive
        /\ vec[v].size_ >= 1
        /\ vec[w].size_ = vec[v].size_
        /\ vec[w].buffer_ # vec[v].buffer_

\* o is a move from array v into array w: v is empty with no block, w has
\* what v had, v's former block is as it was, and PushBack on v then works
\* as on a new array
MovedInto(o, v, w) ==
    LET b == vec[v].buffer_
        p == PushBack(o.vec, After(o), v, 1, 0)
    IN /\ o.res = "ok"
       /\ o.vec[v] = EmptyVector
       /\ o.vec[w].alive
       /\ o.vec[w].buffer_ = b
       /\ o.vec[w].size_ = vec[v].size_
       /\ o.vec[w].capacity_ = vec[v].capacity_
       /\ Elems(o.vec, o.mem, w) = Elems(vec, mem, v)
       /\ \A c \in BufIds \ {vec[w].buffer_} : o.mem.heap[c] = mem.heap[c]
       /\ o.mem.errs \cap {"construct_over_live", "read_raw", "destroy_raw"} = {}
       /\ p.res = "ok"
       /\ p.vec[v].size_ = 1
       /\ p.vec[v].capacity_ = 1
       /\ Elems(p.vec, p.mem, v) = <<Obj(1)>>
       /\ Untouched(o.vec, o.mem, p, w)

\* C14: after move construction from v, or move assignment w = move(v) with
\* w another array, v has size 0 and capacity 0, w has v's former size,
\* capacity and elements in order, the move constructs, copies and relocates
\* no element, and v is usable: a PushBack on it works as on an empty array.
C14_MoveLeavesSourceEmpty ==
    \A v, w \in Arrays :
        /\ (vec[v].alive /\ ~vec[w].alive) => MovedInto(MoveCtor(vec, Mem, w, v), v, w)
        /\ (v # w /\ vec[v].alive /\ vec[w].alive) =>
               MovedInto(MoveAssignVector(vec, Mem, w, v), v, w)

\* a move assignment gave an array that had a block of its own the elements
\* of the other array, which is now empty
C14_Witness ==
    \E v, w \in Arrays :
        /\ v # w
        /\ call = [op |-> "=(&&)", v |-> w, res |-> "ok"]
        /\ "lost_block" \in mem.errs
        /\ vec[w].size_ >= 1
        /\ vec[v] = EmptyVector

\* a constructor that threw: no array, every block as before the call,
\* nothing destroyed or released twice, nothing released alive
RolledBack(o) ==
    /\ o.vec = vec
    /\ o.mem.heap = mem.heap
    /\ o.mem.errs = {}

\* C15: Vector(n) and the copy constructor throw when the construction of
\* element i, any i of [0, n), throws (fault index i + 2, the allocation
\* being step 1); a constructor that throws leaves no array, has destroyed
\* the elements [0, i) once each and released the block once.  Vector(n)
\* that does not throw has size = capacity = n and n default elements.
C15_ConstructorRollback ==
    \A w \in Arrays :
        ~vec[w].alive =>
            /\ \A n \in 0 .. MaxCap, k \in Faults :
                   LET o == SizedCtor(vec, Mem, w, n, k)
                   IN /\ (k >= 2 /\ k <= n + 1) => o.res = "T_exception"
                      /\ (k = 0 \/ k > n + 1) => o.res = "ok"
                      /\ o.res # "ok" => RolledBack(o)
                      /\ o.res = "ok" =>
                             /\ o.vec[w].alive
                             /\ o.vec[w].size_ = n
                             /\ o.vec[w].capacity_ = n
                             /\ Elems(o.vec, o.mem, w) = Fill(n, Obj(Default))
                             /\ o.mem.errs = {}
            /\ \A v \in Arrays, k \in Faults :
                   vec[v].alive =>
                       LET o == CopyCtor(vec, Mem, w, v, k)
                       IN /\ (k >= 2 /\ k <= vec[v].size_ + 1) => o.res = "T_exception"
                          /\ o.res # "ok" => RolledBack(o)

\* Vector(n) ended by an element's constructor throwing: there is no array
\* and no block in use but the other array's
C15_Witness ==
    \E v, w \in Arrays :
        /\ v # w
        /\ call = [op |-> "Vector(n)", v |-> w, res |-> "T_exception"]
        /\ ~vec[w].alive
        /\ vec[v].alive
        /\ vec[v].size_ >= 1
        /\ \A b \in BufIds : mem.heap[b].alloc <=> b = vec[v].buffer_

\* C16: on an empty array, n PushBack calls in a row relocate at most 2n
\* elements in all, for every n; a call relocates the whole array when it
\* moves it to a new block and nothing when it does not.
C16_AmortizedGrowth ==
    vec["a"].size_ = 0 =>
        \A n \in 1 .. MaxPush :
            LET p == PushBackRun(vec, Mem, "a", n - 1)
                q == PushBackRun(vec, Mem, "a", n)
                moved == q.vec["a"].buffer_ # p.vec["a"].buffer_
            IN /\ q.ok
               /\ q.relocations - p.relocations = (IF moved THEN p.vec["a"].size_ ELSE 0)
               /\ q.relocations <= 2 * n

\* a PushBack has moved an array of one element to a block of two
C16_Witness ==
    /\ nothrowMove
    /\ call = [op |-> "PushBack", v |-> "a", res |-> "ok"]
    /\ vec["a"].size_ = 2
    /\ vec["a"].capacity_ = 2
    /\ Elems(vec, mem, "a") = Fill(2, Obj(1))

\* The scenario on array v: PushBack 1, 2, 3; Insert(begin() + 1, 9);
\* Erase(begin()); Resize(5).  What each of the four stages left.
Scenario(V, m, v) ==
    LET pushed == PushBackRun(V, m, v, 3)
        inserted == Insert(pushed.vec, pushed.mem, v, 1, 9, 0)
        erased == Erase(inserted.vec, After(inserted), v, 0, 0, "no_shift")
        resized == Resize(erased.vec, After(erased), v, 5, 0)
    IN [pushed |-> pushed, inserted |-> inserted, erased |-> erased, resized |-> resized]

\* C17: from empty, PushBack 1, 2, 3 gives size 3, elements [1,2,3] and
\* capacity >= 3; Insert at position 1 of 9 then gives [1,9,2,3], size 4;
\* Erase at position 0 then gives [9,2,3], size 3; Resize(5) then gives
\* [9,2,3,default,default], size 5.
C17_Scenario ==
    vec["a"].size_ = 0 =>
        LET s == Scenario(vec, Mem, "a")
        IN /\ s.pushed.ok
           /\ s.pushed.vec["a"].size_ = 3
           /\ s.pushed.vec["a"].capacity_ >= 3
           /\ Elems(s.pushed.vec, s.pushed.mem, "a") = <<Obj(1), Obj(2), Obj(3)>>
           /\ s.inserted.res = "ok"
           /\ s.inserted.vec["a"].size_ = 4
           /\ Elems(s.inserted.vec, s.inserted.mem, "a") = <<Obj(1), Obj(9), Obj(2), Obj(3)>>
           /\ s.erased.res = "ok"
           /\ s.erased.vec["a"].size_ = 3
           /\ Elems(s.erased.vec, s.erased.mem, "a") = <<Obj(9), Obj(2), Obj(3)>>
           /\ s.resized.res = "ok"
           /\ s.resized.vec["a"].size_ = 5
           /\ Elems(s.resized.vec, s.resized.mem, "a")
                  = <<Obj(9), Obj(2), Obj(3), Obj(Default), Obj(Default)>>

\* an array emptied by PopBack, on which the scenario then runs to its end
\* for the T relocated by copy: the Insert shifts in place in a block of 4
\* and the Resize moves the array to a block of 5
C17_Witness ==
    /\ ~nothrowMove
    /\ call = [op |-> "PopBack", v |-> "a", res |-> "ok"]
    /\ vec["a"].size_ = 0
    /\ vec["a"].capacity_ = 1
    /\ LET s == Scenario(vec, Mem, "a")
       IN /\ s.inserted.res = "ok"
          /\ s.inserted.vec["a"].capacity_ = 4
          /\ s.inserted.vec["a"].buffer_ = s.pushed.vec["a"].buffer_
          /\ s.resized.res = "ok"
          /\ s.resized.vec["a"].capacity_ = 5
          /\ s.resized.mem.errs = {}

C19_ReserveEffect ==
    \A c \in 0 .. (MaxCap + 1) :
        LET t == vec["a"]
            o == Reserve(vec, Mem, "a", c, 0)
            u == o.vec["a"]
        IN IF c <= t.capacity_
           THEN \A k \in Faults :
                    LET n == Reserve(vec, Mem, "a", c, k)
                    IN n.res = "ok" /\ n.vec = vec /\ n.mem = Mem
           ELSE /\ o.res = "ok"
                /\ u.capacity_ = c
                /\ u.size_ = t.size_
                /\ Elems(o.vec, o.mem, "a") = Elems(vec, mem, "a")
                /\ u.buffer_ # Nullptr
                /\ u.buffer_ # t.buffer_
                /\ Len(o.mem.heap[u.buffer_].slots) = c
                /\ \A i \in (t.size_ + 1) .. c : Slot(o.mem, u.buffer_, i) = Raw
                /\ t.buffer_ # Nullptr => ~o.mem.heap[t.buffer_].alloc
                /\ \A b \in BufIds \ {t.buffer_, u.buffer_} : o.mem.heap[b] = mem.heap[b]
                /\ o.mem.errs \subseteq {"freed_live"}
                /\ "freed_live" \in o.mem.errs =>
                       \E i \in (t.size_ + 1) .. t.capacity_ : IsLive(Slot(mem, t.buffer_, i))

\* a Reserve has moved two elements that differ to a block of MaxCap slots
C19_Witness ==
    /\ call = [op |-> "Reserve", v |-> "a", res |-> "ok"]
    /\ vec["a"].size_ = 2
    /\ vec["a"].capacity_ = MaxCap
    /\ Elems(vec, mem, "a")[1] # Elems(vec, mem, "a")[2]
    /\ \A i \in 3 .. MaxCap : Slot(mem, vec["a"].buffer_, i) = Raw

\* C20: Insert/Emplace at pos on a full array of a T relocated by copy.  Its
\* throwing steps come in this order: the allocation, the construction of
\* the new element, the pos copies of the prefix, the size - pos copies of
\* the suffix.  Whichever of them throws, the array, its elements and every
\* block are as before the call, the new block is released, and what was
\* built in it has been destroyed once each, none left alive.
C20_EmplaceReallocRollback ==
    LET t == vec["a"]
    IN (~nothrowMove /\ (t.size_ = t.capacity_ \/ t.capacity_ = 0)) =>
           \A pos \in 0 .. t.size_, x \in Values :
             /\ Steps(Insert(vec, Mem, "a", pos, x, NoFault)) = 2 + t.size_
             /\ \A k \in Faults :
               LET o == Insert(vec, Mem, "a", pos, x, k)
               IN /\ k = 1 => o.res = "bad_alloc"
                  /\ (k >= 2 /\ k <= 2 + t.size_) => o.res = "T_exception"
                  /\ (k = 0 \/ k > 2 + t.size_) =>
                         /\ o.res = "ok"
                         /\ o.vec["a"].buffer_ # t.buffer_
                  /\ o.res # "ok" =>
                         /\ o.vec = vec
                         /\ o.mem.heap = mem.heap
                         /\ o.mem.errs = {}

\* an Insert that had to reallocate a full array of one element threw
C20_Witness ==
    /\ ~nothrowMove
    /\ call = [op |-> "Insert", v |-> "a", res |-> "T_exception"]
    /\ vec["a"].size_ = 1
    /\ vec["a"].capacity_ = 1

\* C21: PushBack/EmplaceBack/Emplace/Insert on an array with size < capacity
\* leaves the capacity and the block as they are, failing or not; on an
\* array with size = capacity a successful call leaves capacity 1 if it was
\* 0 and twice the old capacity otherwise.
C21_GrowthPolicy ==
    LET t == vec["a"]
    IN \A pos \in 0 .. t.size_, x \in Values :
           /\ t.size_ < t.capacity_ =>
                  \A k \in 0 .. Steps(Insert(vec, Mem, "a", pos, x, NoFault)) :
                      LET o == Insert(vec, Mem, "a", pos, x, k)
                      IN /\ o.vec["a"].capacity_ = t.capacity_
                         /\ o.vec["a"].buffer_ = t.buffer_
                         /\ \A b \in BufIds : o.mem.heap[b].alloc <=> mem.heap[b].alloc
           /\ t.size_ = t.capacity_ =>
                  LET o == Insert(vec, Mem, "a", pos, x, 0)
                      e == EmplaceBack(vec, Mem, "a", x, 0)
                  IN /\ o.res = "ok"
                     /\ o.vec["a"].capacity_ = (IF t.capacity_ = 0 THEN 1 ELSE 2 * t.capacity_)
                     /\ Len(o.mem.heap[o.vec["a"].buffer_].slots) = o.vec["a"].capacity_
                     /\ e.vec["a"].capacity_ = o.vec["a"].capacity_

\* a PushBack has appended in place in a reserved block of MaxCap slots
C21_Witness ==
    /\ call = [op |-> "PushBack", v |-> "a", res |-> "ok"]
    /\ vec["a"].size_ = 2
    /\ vec["a"].capacity_ = MaxCap
    /\ \A i \in 3 .. MaxCap : Slot(mem, vec["a"].buffer_, i) = Raw

\* C22: a Resize(n) that succeeds ends with size n.  For n > size the
\* elements keep their values, the slots from the old size to n hold default
\* values and the capacity is the larger of the old capacity and n.  For
\* n <= size exactly the elements from n to the old size are destroyed, once
\* each, the first n elements keep their values and the capacity and the
\* block are as before.  Only something alive past size, which is no element,
\* can be built over or go down with the old block.
C22_ResizeEffect ==
    \A n \in 0 .. (MaxCap + 1) :
        LET t == vec["a"]
            o == Resize(vec, Mem, "a", n, 0)
            u == o.vec["a"]
            junk == \E i \in (t.size_ + 1) .. t.capacity_ : IsLive(Slot(mem, t.buffer_, i))
            gone == {<<t.buffer_, i>> : i \in (n + 1) .. t.size_}
        IN /\ o.res = "ok"
           /\ u.size_ = n
           /\ n > t.size_ =>
                  /\ SubSeq(Elems(o.vec, o.mem, "a"), 1, t.size_) = Elems(vec, mem, "a")
                  /\ \A i \in (t.size_ + 1) .. n : Slot(o.mem, u.buffer_, i) = Obj(Default)
                  /\ u.capacity_ = (IF n > t.capacity_ THEN n ELSE t.capacity_)
                  /\ Len(o.mem.heap[u.buffer_].slots) = u.capacity_
                  /\ n <= t.capacity_ => u.buffer_ = t.buffer_
                  /\ o.mem.errs \subseteq (IF junk THEN {"freed_live", "construct_over_live"} ELSE {})
           /\ n <= t.size_ =>
                  /\ Elems(o.vec, o.mem, "a") = SubSeq(Elems(vec, mem, "a"), 1, n)
                  /\ u.capacity_ = t.capacity_
                  /\ u.buffer_ = t.buffer_
                  /\ \A c \in BufIds \X (1 .. MaxCap) :
                         IsLive(Slot(o.mem, c[1], c[2])) <=>
                             (IsLive(Slot(mem, c[1], c[2])) /\ c \notin gone)
                  /\ \A i \in (n + 1) .. t.size_ : Slot(o.mem, t.buffer_, i) = Raw
                  /\ \A b \in BufIds : o.mem.heap[b].alloc <=> mem.heap[b].alloc
                  /\ o.mem.errs = {}

\* a Resize has grown an array holding one element to MaxCap elements
C22_Witness ==
    /\ call = [op |-> "Resize", v |-> "a", res |-> "ok"]
    /\ vec["a"].size_ = MaxCap
    /\ vec["a"].capacity_ = MaxCap
    /\ Elems(vec, mem, "a") = [i \in 1 .. MaxCap |-> IF i = 1 THEN Obj(1) ELSE Obj(Default)]

\* C23: when the value given to PushBack, Insert or Emplace is a reference
\* to an element of the array itself, at any index before, at or after the
\* position, the call inserts the value that element had before the call
\* and the other elements keep their values and their order, whether it
\* shifts in place, appends in place or moves to a new block.
C23_SelfReference ==
    LET t == vec["a"]
        before == Elems(vec, mem, "a")
    IN \A index \in 0 .. (t.size_ - 1) :
           /\ \A pos \in 0 .. t.size_ :
                  LET o == InsertRef(vec, Mem, "a", pos, index, 0)
                  IN /\ o.res = "ok"
                     /\ Elems(o.vec, o.mem, "a") = InsertAt(before, pos, before[index + 1])
                     /\ "read_raw" \notin o.mem.errs
           /\ LET p == PushBackRef(vec, Mem, "a", index, 0)
              IN /\ p.res = "ok"
                 /\ Elems(p.vec, p.mem, "a") = Append(before, before[index + 1])

\* Insert(begin(), v[1]) on <<default, 1>> has shifted the element it took
\* its value from
C23_Witness ==
    /\ call = [op |-> "Insert(v[i])", v |-> "a", res |-> "ok"]
    /\ vec["a"].capacity_ = MaxCap
    /\ Elems(vec, mem, "a") = <<Obj(1), Obj(Default), Obj(1)>>

\* C24: assigning an array to itself, by copy or by move, does nothing:
\* nothing in it can throw, the size, the capacity, the block and the element
\* values are as before, no element is destroyed and no block is released.
C24_SelfAssignment ==
    \A v \in Arrays :
        vec[v].alive =>
            /\ \A k \in Faults :
                   LET o == CopyAssign(vec, Mem, v, v, k)
                   IN o.res = "ok" /\ o.vec = vec /\ o.mem = Mem /\ o.k = k
            /\ LET o == MoveAssignVector(vec, Mem, v, v)
               IN o.res = "ok" /\ o.vec = vec /\ o.mem = Mem

\* a copy assignment has run on an array that holds elements while no other
\* array exists: it was assigned to itself
C24_Witness ==
    \E v \in Arrays :
        /\ call = [op |-> "=(const&)", v |-> v, res |-> "ok"]
        /\ vec[v].alive
        /\ vec[v].size_ >= 1
        /\ \A w \in Arrays \ {v} : ~vec[w].alive

====
